---- MODULE Spec2Model ----
(***************************************************************************)
(* A model of the after-market scraper (src/src/main.rs).                  *)
(*                                                                         *)
(* Representation.                                                         *)
(*   String          a sequence of characters, each character a one-       *)
(*                   element TLA+ string; "NBSP" stands for U+00A0, a      *)
(*                   character of two bytes in UTF-8.                      *)
(*   Option<T>       None is << >>, Some(x) is << x >>.                    *)
(*   Node            [node_name, node_value, attributes, children] as in   *)
(*                   headless_chrome::protocol::dom::Node; attributes is   *)
(*                   an Option of a set of <<key, value>> pairs and        *)
(*                   children an Option of a sequence of nodes.            *)
(*   class value     the attribute string split at its spaces: the string  *)
(*                   "wsod_bold wsod_aRight" is <<"wsod_bold",             *)
(*                   "wsod_aRight">>. Two strings are equal iff their      *)
(*                   splits are equal.                                     *)
(*   f64             [neg, mag]: the sign bit and the magnitude in units   *)
(*                   of 10^-Scale (decimal exact; rounding is not          *)
(*                   modelled).                                            *)
(***************************************************************************)
EXTENDS Integers, Sequences, FiniteSets, TLC

VARIABLES
    pc,         \* position of scrape_cnn_after_market_datasource
    rows,       \* the children of the TBODY (line 63)
    i,          \* index of the row the loop of line 68 is at
    v,          \* the Vec the extraction functions build
    movers,     \* the binding of line 46: what the movers extraction returned
    spNode,     \* Option: the description of div#premkContent1 (line 117)
    NOW,        \* the lazy static of line 31: None until first dereferenced
    clock,      \* what Utc::now() would return
    sink,       \* the rows inserted into the after_market table, in order
    j,          \* index of the record the loop of line 193 is at
    result,     \* what scrape_cnn_after_market_datasource returned
    parseIn,    \* argument of a stand-alone call of parse_percentage_str
    parseOut,   \* its outcome
    lookRoot,   \* arguments of a stand-alone call of
    lookClass,  \*   get_node_with_class_as_option
    lookOut     \* its outcome

vars == <<pc, rows, i, v, movers, spNode, NOW, clock, sink, j, result,
          parseIn, parseOut, lookRoot, lookClass, lookOut>>

scrapeVars == <<pc, rows, i, v, movers, spNode, NOW, clock, sink, j, result>>
parseVars == <<parseIn, parseOut>>
lookVars == <<lookRoot, lookClass, lookOut>>

-----------------------------------------------------------------------------
(* Bounds *)

MaxStrLen == 4      \* longest string handed to the stand-alone parser
MaxRows == 3        \* most rows of a table body
MaxClock == 1       \* how far the clock advances during a run
MaxKids == 2        \* most children of the root of a looked-up tree

-----------------------------------------------------------------------------
(* Options and strings *)

None == << >>
Some(x) == << x >>

Digits == <<"0", "1", "2", "3", "4", "5", "6", "7", "8", "9">>
IsDigit(c) == \E d \in 1..Len(Digits) : Digits[d] = c
DigitVal(c) == (CHOOSE d \in 1..Len(Digits) : Digits[d] = c) - 1

\* bytes of a character in UTF-8
ByteLen(c) == IF c = "NBSP" THEN 2 ELSE 1

Scale == MaxStrLen

RECURSIVE Pow10(_)
Pow10(n) == IF n <= 0 THEN 1 ELSE 10 * Pow10(n - 1)

RECURSIVE DigitsToNat(_)
DigitsToNat(ds) ==
    IF ds = << >> THEN 0
    ELSE 10 * DigitsToNat(SubSeq(ds, 1, Len(ds) - 1)) + DigitVal(ds[Len(ds)])

Contains(s, c) == \E k \in 1..Len(s) : s[k] = c

ZeroVal == [neg |-> FALSE, mag |-> 0]

(* str::parse::<f64> on strings without the letters of an exponent, of     *)
(* "inf", "infinity" or "nan": an optional sign, then digits with at most  *)
(* one '.', and at least one digit ("5." and ".5" are numbers, "", "+" and *)
(* "." are not).                                                           *)
ParseF64(t) ==
    LET signed == Len(t) > 0 /\ t[1] \in {"+", "-"}
        body == IF signed THEN Tail(t) ELSE t
        dots == {k \in 1..Len(body) : body[k] = "."}
        wellFormed == /\ \A k \in 1..Len(body) : IsDigit(body[k]) \/ body[k] = "."
                      /\ Cardinality(dots) <= 1
                      /\ \E k \in 1..Len(body) : IsDigit(body[k])
        dot == IF dots = {} THEN Len(body) + 1 ELSE CHOOSE k \in dots : TRUE
        fracLen == IF dots = {} THEN 0 ELSE Len(body) - dot
        ds == SelectSeq(body, IsDigit)
    IN  IF wellFormed
        THEN [kind |-> "Ok",
              val |-> [neg |-> signed /\ t[1] = "-",
                       mag |-> DigitsToNat(ds) * Pow10(Scale - fracLen)]]
        ELSE [kind |-> "Err", val |-> ZeroVal]

\* the historical defect: the leading sign is stripped with the '%'
ParsePercentageStrStripSign(price_change) ==
    IF Len(price_change) = 0 \/ ByteLen(price_change[Len(price_change)]) > 1
    THEN [kind |-> "Panic", val |-> ZeroVal]
    ELSE LET t == SubSeq(price_change, 1, Len(price_change) - 1)
         IN  ParseF64(IF Len(t) > 0 /\ t[1] \in {"+", "-"} THEN Tail(t) ELSE t)

(* parse_percentage_str: String::remove(len - 1) panics on the empty       *)
(* string (len - 1 underflows) and when byte len - 1 is not a character    *)
(* boundary, i.e. when the last character has more than one byte; else the *)
(* last character, whatever it is, is removed and the rest parsed.         *)
ParsePercentageStr(price_change) ==
    IF Len(price_change) = 0 \/ ByteLen(price_change[Len(price_change)]) > 1
    THEN [kind |-> "Panic", val |-> ZeroVal]
    ELSE ParseF64(SubSeq(price_change, 1, Len(price_change) - 1))

-----------------------------------------------------------------------------
(* Stand-alone calls of parse_percentage_str *)

HarnessChars == {"+", "-", ".", "%", "a", "NBSP", "0", "5"}

StringsUpTo(chars, n) == UNION {[1..k -> chars] : k \in 0..n}

ExampleStrings ==
    { <<"+", "7", ".", "0", "6", "%">>,
      <<"-", "3", ".", "9", "9", "%">>,
      <<"a", "b", "c">>,
      <<"5", ".", "0">>,
      << >> }

NotCalled == [kind |-> "none", val |-> ZeroVal]

ScrapeIdle ==
    /\ pc = "idle"
    /\ rows = << >>
    /\ i = 1
    /\ v = << >>
    /\ movers = << >>
    /\ spNode = None
    /\ NOW = None
    /\ clock = 0
    /\ sink = << >>
    /\ j = 1
    /\ result = [kind |-> "none", val |-> << >>]

ParseIdle == parseIn = << >> /\ parseOut = NotCalled

LookIdle == lookRoot = None /\ lookClass = << >> /\ lookOut = [called |-> FALSE, node |-> None]

InitParse ==
    /\ ScrapeIdle
    /\ LookIdle
    /\ parseIn \in StringsUpTo(HarnessChars, MaxStrLen) \cup ExampleStrings
    /\ parseOut = NotCalled

CallParse ==
    /\ pc = "idle"
    /\ parseOut.kind = "none"
    /\ parseOut' = ParsePercentageStr(parseIn)
    /\ UNCHANGED <<scrapeVars, lookVars, parseIn>>

NextParse == CallParse

SpecParse == InitParse /\ [][NextParse]_vars

-----------------------------------------------------------------------------
(* The DOM *)

Text(value) ==
    [node_name |-> "#text", node_value |-> value,
     attributes |-> None, children |-> None]

Elem(name, attrs, kids) ==
    [node_name |-> name, node_value |-> << >>,
     attributes |-> attrs, children |-> Some(kids)]

Class(c) == Some({<<"class", c>>})

RECURSIVE PreOrder(_)
RECURSIVE PreOrderAll(_)
\* the nodes of the subtree of n, n first, children in document order
PreOrder(n) ==
    <<n>> \o (IF n.children = None THEN << >> ELSE PreOrderAll(n.children[1]))
PreOrderAll(ns) ==
    IF ns = << >> THEN << >> ELSE PreOrder(Head(ns)) \o PreOrderAll(Tail(ns))

\* the nodes of the subtree of n
Nodes(n) == LET ns == PreOrder(n) IN {ns[k] : k \in 1..Len(ns)}

(* Node::find of headless_chrome: the first node of the subtree, the root  *)
(* included, for which the predicate holds, in depth-first pre-order. The  *)
(* predicate is given as the set of the nodes it holds for.                *)
Find(n, holds) ==
    LET ns == PreOrder(n)
        hits == {k \in 1..Len(ns) : ns[k] \in holds}
    IN  IF hits = {} THEN None
        ELSE Some(ns[CHOOSE k \in hits : \A h \in hits : k <= h])

\* HashMap::get on Option<HashMap>::unwrap_or_default()
AttrGet(attrs, key) ==
    LET map == IF attrs = None THEN {} ELSE attrs[1]
        found == {p \in map : p[1] = key}
    IN  IF found = {} THEN None ELSE Some((CHOOSE p \in found : TRUE)[2])

\* a bug a class lookup could have: s matches when its classes are among the node's
ClassMatchesMember(n, s) ==
    LET c == AttrGet(n.attributes, "class")
    IN  c # None /\ \A k \in 1..Len(s) : \E m \in 1..Len(c[1]) : c[1][m] = s[k]

\* the closure of get_node_with_class_as_option
ClassMatches(n, s) == AttrGet(n.attributes, "class") = Some(s)

get_node_with_class_as_option(node, s) ==
    Find(node, {n \in Nodes(node) : ClassMatches(n, s)})

\* get_node_with_name and get_node_with_class without their unwrap: a None
\* is the panic of the caller
find_node_with_name(node, s) ==
    Find(node, {n \in Nodes(node) : n.node_name = s})

-----------------------------------------------------------------------------
(* Stand-alone calls of get_node_with_class_as_option *)

LookClasses == { <<"a">>, <<"b">>, <<"a", "b">> }

LookAttrs == {None, Some({}), Some({<<"id", <<"a">>>>})} \cup {Class(c) : c \in LookClasses}

LookLeaves == {Elem("TD", a, << >>) : a \in LookAttrs}

LookKids == LookLeaves \cup {Elem("TR", a, <<k>>) : a \in {None, Class(<<"b">>)}, k \in LookLeaves}

LookTrees ==
    {Elem("DIV", a, ks) : a \in {None, Class(<<"a", "b">>)},
                          ks \in UNION {[1..n -> LookKids] : n \in 0..MaxKids}}

InitLook ==
    /\ ScrapeIdle
    /\ ParseIdle
    /\ lookRoot \in {Some(t) : t \in LookTrees}
    /\ lookClass \in LookClasses
    /\ lookOut = [called |-> FALSE, node |-> None]

CallLookup ==
    /\ pc = "idle"
    /\ ~lookOut.called
    /\ lookOut' = [called |-> TRUE,
                   node |-> get_node_with_class_as_option(lookRoot[1], lookClass)]
    /\ UNCHANGED <<scrapeVars, parseVars, lookRoot, lookClass>>

NextLook == CallLookup

SpecLook == InitLook /\ [][NextLook]_vars

-----------------------------------------------------------------------------
(* The extraction of one row of the movers table (lines 69-103) *)

HeaderCaption ==
    <<"G", "a", "i", "n", "e", "r", "s", " ", "&", " ",
      "L", "o", "s", "e", "r", "s">>

\* line 69-70: the row has a node whose value is the caption
IsHeaderRow(row) ==
    Find(row, {n \in Nodes(row) : n.node_value = HeaderCaption}) # None

Outcome(kind, symbol, percentage) ==
    [kind |-> kind, symbol |-> symbol, percentage |-> percentage]

PanicOutcome == Outcome("panic", << >>, ZeroVal)

\* lines 76-95 for a row that is not the header
DataRowOutcome(row) ==
    LET first_column == get_node_with_class_as_option(row, <<"wsod_firstCol">>)
    IN  IF first_column = None THEN PanicOutcome
        ELSE
        LET symbolNode == find_node_with_name(first_column[1], "#text")
        IN  IF symbolNode = None THEN PanicOutcome
            ELSE
            LET neg == get_node_with_class_as_option(row, <<"negChangePct">>)
                third_column ==
                    IF neg # None THEN neg
                    ELSE get_node_with_class_as_option(row, <<"posChangePct">>)
            IN  IF third_column = None THEN PanicOutcome
                ELSE
                LET text == find_node_with_name(third_column[1], "#text")
                IN  IF text = None THEN PanicOutcome
                    ELSE
                    LET p == ParsePercentageStr(text[1].node_value)
                    IN  IF p.kind = "Panic" THEN PanicOutcome
                        ELSE IF p.kind = "Err" THEN Outcome("err", << >>, ZeroVal)
                        ELSE Outcome("push", symbolNode[1].node_value, p.val)

\* a bug the row loop could have: a row without its first column is passed over
RowOutcomeSkipMissing(row) ==
    IF IsHeaderRow(row)
       \/ get_node_with_class_as_option(row, <<"wsod_firstCol">>) = None
    THEN Outcome("continue", << >>, ZeroVal)
    ELSE DataRowOutcome(row)

(* The body of the loop for one row: "continue" for the header, "push" with *)
(* the record's fields, "err" when parse_percentage_str returns Err (the ?  *)
(* of line 95), "panic" when a lookup finds nothing or the parser panics.   *)
RowOutcome(row) ==
    IF IsHeaderRow(row) THEN Outcome("continue", << >>, ZeroVal)
    ELSE DataRowOutcome(row)

-----------------------------------------------------------------------------
(* The extraction of the S&P record (lines 119-135) *)

SpSymbol == <<"S", "&", "P">>

HasPercent(n) == Contains(n.node_value, "%")

\* a bug the S&P extraction could have: the '%' text is searched in the whole
\* wsod_futureQuote node
SpOutcomeUnscoped(node) ==
    LET sp_row == get_node_with_class_as_option(
                      node, <<"wsod_futureQuote", "wsod_futureQuoteFirst">>)
    IN  IF sp_row = None THEN PanicOutcome
        ELSE
        LET found == Find(sp_row[1], {n \in Nodes(sp_row[1]) : HasPercent(n)})
        IN  IF found = None THEN PanicOutcome
            ELSE
            LET p == ParsePercentageStr(found[1].node_value)
            IN  IF p.kind = "Panic" THEN PanicOutcome
                ELSE IF p.kind = "Err" THEN Outcome("err", << >>, ZeroVal)
                ELSE Outcome("push", SpSymbol, p.val)

SpOutcome(node) ==
    LET sp_row == get_node_with_class_as_option(
                      node, <<"wsod_futureQuote", "wsod_futureQuoteFirst">>)
    IN  IF sp_row = None THEN PanicOutcome
        ELSE
        LET sp_price_changes ==
                get_node_with_class_as_option(sp_row[1], <<"wsod_bold", "wsod_aRight">>)
        IN  IF sp_price_changes = None THEN PanicOutcome
            ELSE
            LET found == Find(sp_price_changes[1],
                              {n \in Nodes(sp_price_changes[1]) : HasPercent(n)})
            IN  IF found = None THEN PanicOutcome
                ELSE
                LET p == ParsePercentageStr(found[1].node_value)
                IN  IF p.kind = "Panic" THEN PanicOutcome
                    ELSE IF p.kind = "Err" THEN Outcome("err", << >>, ZeroVal)
                    ELSE Outcome("push", SpSymbol, p.val)

-----------------------------------------------------------------------------
(* The pages *)

Str(a, b, c, d) == <<a, b, c, d>>

AAPL == Str("A", "A", "P", "L")
MSFT == Str("M", "S", "F", "T")
TSLA == Str("T", "S", "L", "A")
GOOG == Str("G", "O", "O", "G")

DataRow(symbol, class, pct) ==
    Elem("TR", None,
         << Elem("TD", Class(<<"wsod_firstCol">>),
                 << Elem("A", Class(<<"wsod_symbol">>), << Text(symbol) >>) >>),
            Elem("TD", Class(<<"wsod_aRight">>),
                 << Elem("SPAN", Class(<<class>>), << Text(pct) >>) >>) >>)

Gainer(symbol, pct) == DataRow(symbol, "posChangePct", pct)
Loser(symbol, pct) == DataRow(symbol, "negChangePct", pct)

HeaderRow ==
    Elem("TR", None, << Elem("TH", Class(<<"wsod_firstCol">>), << Text(HeaderCaption) >>) >>)

\* a row whose first cell carries another class
RowNoFirstCol ==
    Elem("TR", None,
         << Elem("TD", Class(<<"wsod_firstCol", "wsod_new">>), << Text(GOOG) >>),
            Elem("TD", None, << Elem("SPAN", Class(<<"posChangePct">>),
                                     << Text(<<"+", "3", ".", "0", "0", "%">>) >>) >>) >>)

\* a row without a change column
RowNoChange ==
    Elem("TR", None, << Elem("TD", Class(<<"wsod_firstCol">>), << Text(GOOG) >>) >>)

\* a row whose first column holds no text
RowNoSymbolText ==
    Elem("TR", None,
         << Elem("TD", Class(<<"wsod_firstCol">>), << Elem("A", None, << >>) >>),
            Elem("TD", None, << Elem("SPAN", Class(<<"negChangePct">>),
                                     << Text(<<"-", "2", ".", "0", "0", "%">>) >>) >>) >>)

RowKinds ==
    { HeaderRow,
      Gainer(AAPL, <<"+", "1", ".", "2", "3", "%">>),
      Loser(TSLA, <<"-", "2", ".", "0", "0", "%">>),
      Gainer(GOOG, <<"a", "b", "c">>),
      Gainer(GOOG, << >>),
      RowNoFirstCol,
      RowNoSymbolText,
      RowNoChange }

ExampleTable ==
    << HeaderRow,
       Gainer(AAPL, <<"+", "1", ".", "2", "3", "%">>),
       Gainer(MSFT, <<"+", "0", ".", "5", "0", "%">>),
       Loser(TSLA, <<"-", "2", ".", "0", "0", "%">>),
       Gainer(GOOG, <<"+", "3", ".", "0", "0", "%">>) >>

TableBodies == UNION {[1..n -> RowKinds] : n \in 0..MaxRows} \cup {ExampleTable}

MoversContainer(tbody) ==
    Elem("DIV", Some({<<"id", <<"wsod_marketMoversContainer">>>>}),
         << Elem("TABLE", None, << tbody >>) >>)

\* what tab.wait_for_element(...)?.get_description()? gives: None is its Err
MoversPages ==
    {None,
     Some(Elem("DIV", None, << >>)),
     Some(MoversContainer([node_name |-> "TBODY", node_value |-> << >>,
                           attributes |-> None, children |-> None]))}
    \cup {Some(MoversContainer(Elem("TBODY", None, rs))) : rs \in TableBodies}

SpFragment(quoteClass, lead, boldClass, texts) ==
    Elem("DIV", Some({<<"id", <<"premkContent1">>>>}),
         << Elem("DIV", Class(quoteClass),
                 << Elem("SPAN", Class(<<"wsod_bold">>), lead),
                    Elem("SPAN", Class(boldClass), texts) >>) >>)

Quote == <<"wsod_futureQuote", "wsod_futureQuoteFirst">>
Bold == <<"wsod_bold", "wsod_aRight">>
Minus071 == <<"-", "0", ".", "7", "1", "%">>

SpFragments ==
    { SpFragment(Quote, << Text(SpSymbol) >>, Bold,
                 << Text(<<"-", "1", "8">>),
                    Elem("SPAN", Class(<<"negData">>), << Text(Minus071) >>),
                    Text(<<"+", "0", ".", "1", "0", "%">>) >>),
      SpFragment(Quote, << Text(<<"+", "9", ".", "9", "9", "%">>) >>, Bold,
                 << Text(Minus071) >>),
      SpFragment(<<"wsod_futureQuote">>, << >>, Bold, << Text(Minus071) >>),
      SpFragment(Quote, << >>, <<"wsod_aRight">>, << Text(Minus071) >>),
      SpFragment(Quote, << >>, Bold, << Text(<<"-", "1", "8">>) >>),
      SpFragment(Quote, << >>, Bold, << Text(<<"a", "b", "c", "%">>) >>),
      SpFragment(Quote, << >>, Bold, << Text(<<"-", "0", ".", "7", "%", "NBSP">>) >>) }

\* what tab.find_element(...)?.get_description()? gives: None is its Err
SpPages == {None} \cup {Some(f) : f \in SpFragments}

-----------------------------------------------------------------------------
(* scrape_cnn_after_market_datasource *)

NoResult == [kind |-> "none", val |-> << >>]
ErrResult == [kind |-> "Err", val |-> << >>]

\* a bug the timestamp could have: Utc::now() taken for each record
NowValuePerRecord(now, clk) == clk

\* *NOW: the lazy static holds the time of its first dereference
NowValue(now, clk) == IF now = None THEN clk ELSE now[1]

AfterMarketPriceData(symbol, percentage, date) ==
    [symbol |-> symbol, percentage |-> percentage, date |-> date]

\* a bug the row loop could have: break at the header instead of continue
BreakIndex(idx, n) == n + 1

\* line 73: continue goes on with the next row
ContinueIndex(idx, n) == idx + 1

\* a bug the insert loop could have: a record inserted twice
SinkAfterExecuteTwice(snk, d) == Append(Append(snk, d), d)

\* lines 194-201: one INSERT of the record's three columns
SinkAfterExecute(snk, d) == Append(snk, d)

Init ==
    /\ pc = "start"
    /\ rows = << >>
    /\ i = 1
    /\ v = << >>
    /\ movers = << >>
    /\ spNode = None
    /\ NOW = None
    /\ clock = 0
    /\ sink = << >>
    /\ j = 1
    /\ result = NoResult
    /\ ParseIdle
    /\ LookIdle

Running == pc \in {"start", "locate", "rows", "sp", "connect", "insert"}

\* time passes; the clock is read only up to the last record's construction
Tick ==
    /\ pc \in {"start", "locate", "rows", "sp"}
    /\ clock < MaxClock
    /\ clock' = clock + 1
    /\ UNCHANGED <<pc, rows, i, v, movers, spNode, NOW, sink, j, result,
                   parseVars, lookVars>>

\* lines 40-44: Browser::default()? and initialize_tab(..)?, which panics
\* without AFTER_MARKET_URL
StartScrape ==
    /\ pc = "start"
    /\ \/ pc' = "locate" /\ result' = result
       \/ pc' = "returned" /\ result' = ErrResult
       \/ pc' = "panicked" /\ result' = result
    /\ UNCHANGED <<rows, i, v, movers, spNode, NOW, clock, sink, j,
                   parseVars, lookVars>>

\* lines 59-63
LocateTable ==
    /\ pc = "locate"
    /\ \E page \in MoversPages :
          \/ /\ page = None
             /\ pc' = "returned" /\ result' = ErrResult /\ rows' = rows
          \/ /\ page # None
             /\ LET table == find_node_with_name(page[1], "TBODY")
                    kids == IF table = None THEN None ELSE table[1].children
                IN  \/ /\ kids = None
                       /\ pc' = "panicked" /\ result' = result /\ rows' = rows
                    \/ /\ kids # None
                       /\ rows' = kids[1]
                       /\ pc' = "rows" /\ result' = result
    /\ i' = 1
    /\ UNCHANGED <<v, movers, spNode, NOW, clock, sink, j, parseVars, lookVars>>

\* lines 68-104: one iteration of the loop
ProcessRow ==
    /\ pc = "rows"
    /\ i <= Len(rows)
    /\ LET o == RowOutcome(rows[i])
       IN  \/ /\ o.kind = "continue"
              /\ i' = ContinueIndex(i, Len(rows))
              /\ UNCHANGED <<pc, v, NOW, result>>
           \/ /\ o.kind = "push"
              /\ v' = Append(v, AfterMarketPriceData(o.symbol, o.percentage,
                                                     NowValue(NOW, clock)))
              /\ NOW' = Some(NowValue(NOW, clock))
              /\ i' = i + 1
              /\ UNCHANGED <<pc, result>>
           \/ /\ o.kind = "err"
              /\ pc' = "returned" /\ result' = ErrResult
              /\ UNCHANGED <<i, v, NOW>>
           \/ /\ o.kind = "panic"
              /\ pc' = "panicked"
              /\ UNCHANGED <<i, v, NOW, result>>
    /\ UNCHANGED <<rows, movers, spNode, clock, sink, j, parseVars, lookVars>>

\* line 106 and the binding of line 46
FinishRows ==
    /\ pc = "rows"
    /\ i > Len(rows)
    /\ movers' = v
    /\ pc' = "sp"
    /\ UNCHANGED <<rows, i, v, spNode, NOW, clock, sink, j, result,
                   parseVars, lookVars>>

\* lines 116-138 and the binding of line 47
GetStandardAndPoors ==
    /\ pc = "sp"
    /\ \E page \in SpPages :
          \/ /\ page = None
             /\ pc' = "returned" /\ result' = ErrResult
             /\ UNCHANGED <<spNode, v, NOW>>
          \/ /\ page # None
             /\ spNode' = page
             /\ LET o == SpOutcome(page[1])
                IN  \/ /\ o.kind = "push"
                       /\ v' = Append(v, AfterMarketPriceData(o.symbol, o.percentage,
                                                              NowValue(NOW, clock)))
                       /\ NOW' = Some(NowValue(NOW, clock))
                       /\ pc' = "connect" /\ result' = result
                    \/ /\ o.kind = "err"
                       /\ pc' = "returned" /\ result' = ErrResult
                       /\ UNCHANGED <<v, NOW>>
                    \/ /\ o.kind = "panic"
                       /\ pc' = "panicked" /\ result' = result
                       /\ UNCHANGED <<v, NOW>>
    /\ UNCHANGED <<rows, i, movers, clock, sink, j, parseVars, lookVars>>

\* lines 187-191: expect on DATABASE_URL and unwrap of Connection::connect
ConnectDb ==
    /\ pc = "connect"
    /\ \/ pc' = "insert"
       \/ pc' = "panicked"
    /\ j' = 1
    /\ UNCHANGED <<rows, i, v, movers, spNode, NOW, clock, sink, result,
                   parseVars, lookVars>>

\* lines 193-202: one iteration, execute(..).unwrap()
InsertRecord ==
    /\ pc = "insert"
    /\ j <= Len(v)
    /\ \/ /\ sink' = SinkAfterExecute(sink, v[j])
          /\ j' = j + 1
          /\ pc' = pc
       \/ /\ pc' = "panicked"
          /\ UNCHANGED <<sink, j>>
    /\ UNCHANGED <<rows, i, v, movers, spNode, NOW, clock, result,
                   parseVars, lookVars>>

\* line 51
ReturnOk ==
    /\ pc = "insert"
    /\ j > Len(v)
    /\ result' = [kind |-> "Ok", val |-> v]
    /\ pc' = "returned"
    /\ UNCHANGED <<rows, i, v, movers, spNode, NOW, clock, sink, j,
                   parseVars, lookVars>>

Next ==
    \/ Tick
    \/ StartScrape
    \/ LocateTable
    \/ ProcessRow
    \/ FinishRows
    \/ GetStandardAndPoors
    \/ ConnectDb
    \/ InsertRecord
    \/ ReturnOk

Spec == Init /\ [][Next]_vars

-----------------------------------------------------------------------------
(* What the claims speak of *)

\* the row has a node whose value is the header caption
HasCaption(row) ==
    LET ns == PreOrder(row)
    IN  \E k \in 1..Len(ns) : ns[k].node_value = HeaderCaption

\* the node has a descendant whose class attribute is exactly c
HasClass(node, c) ==
    LET ns == PreOrder(node)
    IN  \E k \in 1..Len(ns) :
            /\ ns[k].attributes # None
            /\ <<"class", c>> \in ns[k].attributes[1]

IsLoserRow(row) == HasClass(row, <<"negChangePct">>)

\* an expected column or text node of the row is missing
MissingField(row) ==
    LET first == get_node_with_class_as_option(row, <<"wsod_firstCol">>)
        neg == get_node_with_class_as_option(row, <<"negChangePct">>)
        pos == get_node_with_class_as_option(row, <<"posChangePct">>)
        third == IF neg # None THEN neg ELSE pos
    IN  IF first = None \/ third = None THEN TRUE
        ELSE \/ find_node_with_name(first[1], "#text") = None
             \/ find_node_with_name(third[1], "#text") = None

\* the percentage text of a row that has its fields
RowPctText(row) ==
    LET neg == get_node_with_class_as_option(row, <<"negChangePct">>)
        pos == get_node_with_class_as_option(row, <<"posChangePct">>)
        third == IF neg # None THEN neg ELSE pos
    IN  find_node_with_name(third[1], "#text")[1].node_value

\* the ticker text of a row that has its fields
RowSymbol(row) ==
    find_node_with_name(
        get_node_with_class_as_option(row, <<"wsod_firstCol">>)[1], "#text")[1].node_value

NotHeader(row) == ~HasCaption(row)

\* the tickers of the rows among the first n that are not headers, in order
ExpectedSymbols(rs, n) ==
    LET sel == SelectSeq(SubSeq(rs, 1, n), NotHeader)
    IN  [k \in 1..Len(sel) |-> RowSymbol(sel[k])]

Symbols(recs) == [k \in 1..Len(recs) |-> recs[k].symbol]

\* the index of the first loser row, or one past the last row
FirstLoser(rs) ==
    LET losers == {k \in 1..Len(rs) : IsLoserRow(rs[k])}
    IN  IF losers = {} THEN Len(rs) + 1
        ELSE CHOOSE k \in losers : \A m \in losers : k <= m

\* the row loop ended at row i without completing it
EndedAtRow == ~Running /\ pc # "idle" /\ i <= Len(rows)

\* the nodes the S&P extraction looks for, each an Option
SpQuote(f) == get_node_with_class_as_option(f, Quote)
SpBold(f) ==
    IF SpQuote(f) = None THEN None
    ELSE get_node_with_class_as_option(SpQuote(f)[1], Bold)
SpText(f) ==
    IF SpBold(f) = None THEN None
    ELSE Find(SpBold(f)[1], {n \in Nodes(SpBold(f)[1]) : HasPercent(n)})

-----------------------------------------------------------------------------
(* The claims *)

(* C1: the movers extraction stops at the first row with a negChangePct    *)
(* column: what it returns is one record for each non-header row strictly  *)
(* before that row, and no record for the loser row or a row after it.     *)
C1_StopsAtFirstLoser ==
    pc = "sp" => Symbols(movers) = ExpectedSymbols(rows, FirstLoser(rows) - 1)

(* C2, as claimed: a non-header row with a missing column or text node     *)
(* ends the run by an error value returned to the caller, never a panic.   *)
C2_MissingFieldReturnsErr ==
    (EndedAtRow /\ ~HasCaption(rows[i]) /\ MissingField(rows[i]))
        => (pc = "returned" /\ result.kind = "Err")

(* C2, amended: a non-header row with a missing column or text node is     *)
(* never passed over, and the run ends at it by a panic, with nothing      *)
(* returned to the caller and nothing inserted.                            *)
C2_MissingFieldPanics ==
    /\ \A k \in 1..Len(rows) :
          k < i => (HasCaption(rows[k]) \/ ~MissingField(rows[k]))
    /\ (EndedAtRow /\ ~HasCaption(rows[i]) /\ MissingField(rows[i]))
          => (pc = "panicked" /\ result = NoResult /\ movers = << >> /\ sink = << >>)

C2_Witness ==
    /\ pc = "panicked"
    /\ i <= Len(rows)
    /\ Len(v) > 0
    /\ ~HasCaption(rows[i])
    /\ ~HasClass(rows[i], <<"wsod_firstCol">>)

\* ^[+-]?\d+(\.\d+)?$
IsDecimal(t) ==
    LET body == IF Len(t) > 0 /\ t[1] \in {"+", "-"} THEN Tail(t) ELSE t
        dots == {k \in 1..Len(body) : body[k] = "."}
    IN  /\ Len(body) > 0
        /\ \A k \in 1..Len(body) : IsDigit(body[k]) \/ body[k] = "."
        /\ Cardinality(dots) <= 1
        /\ IsDigit(body[1])
        /\ IsDigit(body[Len(body)])

\* ^[+-]?\d+(\.\d+)?%$
IsPercentage(s) ==
    Len(s) > 0 /\ s[Len(s)] = "%" /\ IsDecimal(SubSeq(s, 1, Len(s) - 1))

\* the magnitude of a decimal, in units of 10^-Scale
Magnitude(t) ==
    LET body == IF t[1] \in {"+", "-"} THEN Tail(t) ELSE t
        dots == {k \in 1..Len(body) : body[k] = "."}
        dot == IF dots = {} THEN Len(body) + 1 ELSE CHOOSE k \in dots : TRUE
    IN  DigitsToNat(SubSeq(body, 1, dot - 1)) * Pow10(Scale)
        + DigitsToNat(SubSeq(body, dot + 1, Len(body)))
              * Pow10(Scale - (Len(body) - dot))

(* C3: for a well-formed percentage string parse_percentage_str returns    *)
(* the number before the '%' with its sign: negative after a leading '-',  *)
(* positive after a leading '+' or no sign, the magnitude that of the      *)
(* digits.                                                                 *)
C3_SignPreserved ==
    (parseOut.kind # "none" /\ IsPercentage(parseIn))
        => /\ parseOut.kind = "Ok"
           /\ parseOut.val.neg = (parseIn[1] = "-")
           /\ parseOut.val.mag = Magnitude(SubSeq(parseIn, 1, Len(parseIn) - 1))

C3_Witness ==
    /\ parseIn = <<"-", "3", ".", "9", "9", "%">>
    /\ parseOut.kind = "Ok"
    /\ parseOut.val.neg
    /\ parseOut.val.mag = 399 * Pow10(Scale - 2)

(* C4: parse_percentage_str returns an error, and neither panics nor       *)
(* succeeds, for the empty string, for "abc" and for a number without its  *)
(* trailing '%'.                                                           *)
C4_RejectsMalformed ==
    (/\ parseOut.kind # "none"
     /\ \/ parseIn = << >>
        \/ parseIn = <<"a", "b", "c">>
        \/ IsDecimal(parseIn))
        => parseOut.kind = "Err"

(* C5: a row holding the caption "Gainers & Losers" gives no record and    *)
(* does not end the loop, and every other row is processed in document     *)
(* order: while the loop runs the records are those of the non-header rows *)
(* passed so far, the loop never ends at a header row, and what a          *)
(* completed loop returns are the records of all the non-header rows.      *)
C5_HeaderSkippedLoopGoesOn ==
    /\ pc = "rows" => Symbols(v) = ExpectedSymbols(rows, i - 1)
    /\ (pc # "rows" /\ i <= Len(rows)) => ~HasCaption(rows[i])
    /\ (pc # "rows" /\ i > Len(rows))
          => Symbols(movers) = ExpectedSymbols(rows, Len(rows))

C5_Witness ==
    /\ pc = "sp"
    /\ Len(rows) = 3
    /\ ~HasCaption(rows[1])
    /\ HasCaption(rows[2])
    /\ ~HasCaption(rows[3])
    /\ Len(movers) = 2

(* C6: what a successful run returns are the N mover records in their      *)
(* extracted order and then the S&P record, N + 1 in all, every one with   *)
(* the same timestamp, the one the run fixed once.                         *)
C6_AssembledCollection ==
    result.kind = "Ok" =>
        /\ Len(result.val) = Len(movers) + 1
        /\ SubSeq(result.val, 1, Len(movers)) = movers
        /\ result.val[Len(result.val)].symbol = SpSymbol
        /\ \A k \in 1..Len(result.val) : result.val[k].date = result.val[1].date
        /\ NOW = Some(result.val[1].date)

C6_Witness ==
    /\ result.kind = "Ok"
    /\ Len(result.val) = 3
    /\ result.val[1].symbol # SpSymbol
    /\ clock > result.val[3].date

(* C7, as claimed: when a node the S&P extraction looks for is missing,    *)
(* it returns an error and appends no record.                              *)
C7_MissingNodeReturnsErr ==
    (spNode # None /\ SpText(spNode[1]) = None)
        => (pc = "returned" /\ result.kind = "Err" /\ v = movers)

(* C7, amended: the S&P extraction appends exactly one record, with symbol *)
(* "S&P" and the parse of the first text holding a '%' inside the          *)
(* wsod_bold wsod_aRight node inside the wsod_futureQuote                  *)
(* wsod_futureQuoteFirst node, when that text parses; when one of these    *)
(* nodes is missing it panics, returns nothing and appends no record.      *)
C7_SpRecordOrPanic ==
    spNode # None =>
        IF SpText(spNode[1]) = None
        THEN pc = "panicked" /\ result = NoResult /\ v = movers /\ sink = << >>
        ELSE LET p == ParsePercentageStr(SpText(spNode[1])[1].node_value)
             IN  /\ p.kind = "Ok" =>
                        v = Append(movers, [symbol |-> SpSymbol,
                                            percentage |-> p.val,
                                            date |-> NOW[1]])
                 /\ p.kind = "Err" => (pc = "returned" /\ result = ErrResult /\ v = movers)
                 /\ p.kind = "Panic" => (pc = "panicked" /\ result = NoResult /\ v = movers)

C7_Witness ==
    /\ spNode # None
    /\ SpQuote(spNode[1]) # None
    /\ SpBold(spNode[1]) = None
    /\ pc = "panicked"
    /\ Len(movers) > 0
    /\ v = movers

(* C8: when the percentage text of a mover row or of the S&P fragment      *)
(* fails to parse, the run returns an error, and nothing is inserted.      *)
C8_ParseFailureReturnsErr ==
    (\/ /\ EndedAtRow /\ ~HasCaption(rows[i]) /\ ~MissingField(rows[i])
        /\ ParsePercentageStr(RowPctText(rows[i])).kind # "Ok"
     \/ /\ spNode # None /\ SpText(spNode[1]) # None
        /\ ParsePercentageStr(SpText(spNode[1])[1].node_value).kind # "Ok")
        => (pc = "returned" /\ result = ErrResult /\ sink = << >>)

(* C9: get_node_with_class_as_option returns a node only if the node's     *)
(* whole class attribute equals the requested string, a node without       *)
(* attributes or without a class attribute never matches, and the lookup   *)
(* returns None exactly when no node of the subtree matches.               *)
C9_ExactClassMatch ==
    lookOut.called =>
        /\ lookOut.node # None =>
              /\ \E k \in 1..Len(PreOrder(lookRoot[1])) :
                     PreOrder(lookRoot[1])[k] = lookOut.node[1]
              /\ lookOut.node[1].attributes # None
              /\ <<"class", lookClass>> \in lookOut.node[1].attributes[1]
        /\ lookOut.node = None <=> ~HasClass(lookRoot[1], lookClass)

C9_Witness ==
    /\ lookOut.called
    /\ lookOut.node = None
    /\ lookClass = <<"a">>
    /\ HasClass(lookRoot[1], <<"a", "b">>)
    /\ \E k \in 1..Len(PreOrder(lookRoot[1])) : PreOrder(lookRoot[1])[k].attributes = None
    /\ \E k \in 1..Len(PreOrder(lookRoot[1])) :
           PreOrder(lookRoot[1])[k].attributes = Some({<<"id", <<"a">>>>})

====
